---- MODULE Spec2Model ----
(***************************************************************************)
(* A model of the PM2.5 forecast assessment framework:                     *)
(*   - experiment.py : Experiment.load_data / evaluate_metrics /           *)
(*                     save_results / run                                  *)
(*   - naqfc.py      : get_AQM_version, create_naqfc_url_and_get_xr,       *)
(*                     naqfc_data_download                                 *)
(*   - hrrr.py       : create_url_and_get_xr, hrrr_data_download,          *)
(*                     find_nearby_predictions                             *)
(* Each component has its own specification (SpecExperiment, SpecFetch,    *)
(* SpecReduce, SpecFilter); the variables of the other components rest.    *)
(***************************************************************************)
EXTENDS Integers, Sequences, FiniteSets, TLC

VARIABLES
    \* ---- Experiment (experiment.py)
    start_date,      \* self.start_date
    end_date,        \* self.end_date
    daily_data,      \* self.daily_data: the dates of the DailyData objects
    exp_pc,          \* position of Experiment.run
    day_i,           \* index of the day the running loop is at
    metric_i,        \* index of the metric evaluate_metrics is at
    results,         \* the dict evaluate_metrics builds, as a sequence of items
    persisted,       \* dates whose <date>.json was written by json_tricks.dump
    warnings,        \* dates for which the "Missing values" warning was printed
    exp_exc,         \* the exception that left run(), if any
    \* ---- fetchers (hrrr.py / naqfc.py)
    source,          \* "hrrr" or "naqfc"
    day,             \* the day argument
    cycle,           \* the cycle argument
    manifest,        \* the remote .idx file of the hrrr object
    fetch_pc,        \* position of the fetch function
    idx,             \* r.text.splitlines()
    range_start,     \* smk_line[1]
    range_end,       \* next_line[1] or None
    AQM_version,     \* the version get_AQM_version returned
    files,           \* temporary files that exist on disk
    requests_log,    \* every requests.get issued, in order
    resp,            \* the response of the data request
    decoder_input,   \* what xr.open_dataset was given
    fetch_exc,       \* the exception that left the fetch ("none": none did)
    \* ---- reducers (hrrr_data_download / naqfc_data_download)
    red_source,      \* which download function runs
    red_cycle,       \* its cycle argument
    missing_cells,   \* the (step, cell) positions the decoded grid has no value at
    red_pc,          \* position of the download function
    leadtime,        \* the loop variable (leadtime / i)
    frames,          \* hourly_dfs / data: the frames appended so far
    df,              \* the table returned
    \* ---- spatial filter (find_nearby_predictions)
    predictions,     \* the table argument
    coordinates,     \* the target coordinate
    max_distance,    \* the radius
    filter_pc,       \* position of the call
    nearby_preds     \* the table returned

expVars    == <<start_date, end_date, daily_data, exp_pc, day_i, metric_i,
                results, persisted, warnings, exp_exc>>
fetchVars  == <<source, day, cycle, manifest, fetch_pc, idx, range_start,
                range_end, AQM_version, files, requests_log, resp,
                decoder_input, fetch_exc>>
redVars    == <<red_source, red_cycle, missing_cells, red_pc, leadtime,
                frames, df>>
filterVars == <<predictions, coordinates, max_distance, filter_pc, nearby_preds>>
vars       == <<expVars, fetchVars, redVars, filterVars>>

(***************************************************************************)
(* Dates: datetime.date and datetime.datetime values.                      *)
(***************************************************************************)
Years == 2019 .. 2026

IsLeap(y) == y % 4 = 0 /\ (y % 100 # 0 \/ y % 400 = 0)

DaysInMonth(y, m) ==
    IF m = 2 THEN (IF IsLeap(y) THEN 29 ELSE 28)
    ELSE IF m \in {4, 6, 9, 11} THEN 30 ELSE 31

DaysBeforeYear(y) ==
    (y - 1) * 365 + ((y - 1) \div 4) - ((y - 1) \div 100) + ((y - 1) \div 400)

RECURSIVE DaysBeforeMonth(_, _)
DaysBeforeMonth(y, m) ==
    IF m = 1 THEN 0 ELSE DaysBeforeMonth(y, m - 1) + DaysInMonth(y, m - 1)

\* date.toordinal()
ToOrdinal(d) == DaysBeforeYear(d.year) + DaysBeforeMonth(d.year, d.month) + d.day

\* date.fromordinal(n), keeping kind and time of day of d
FromOrdinal(n, d) ==
    LET y == CHOOSE yy \in Years :
                 DaysBeforeYear(yy) < n /\ n <= DaysBeforeYear(yy + 1)
        r == n - DaysBeforeYear(y)
        m == CHOOSE mm \in 1 .. 12 :
                 DaysBeforeMonth(y, mm) < r
                 /\ r <= DaysBeforeMonth(y, mm) + DaysInMonth(y, mm)
    IN  [kind |-> d.kind, year |-> y, month |-> m,
         day |-> r - DaysBeforeMonth(y, m), hour |-> d.hour]

\* d + timedelta(days=i)
AddDays(d, i) == FromOrdinal(ToOrdinal(d) + i, d)

\* (b - a).days: timedelta normalises so that 0 <= seconds < 86400
DeltaDays(a, b) ==
    (((ToOrdinal(b) - ToOrdinal(a)) * 24) + (b.hour - a.hour)) \div 24

DateTime(y, m, d, h) ==
    [kind |-> "datetime", year |-> y, month |-> m, day |-> d, hour |-> h]

Date(y, m, d) ==
    [kind |-> "date", year |-> y, month |-> m, day |-> d, hour |-> 0]

\* the ordering of two values of the same class: by (year, month, day, time)
Before(a, b) ==
    \/ a.year < b.year
    \/ a.year = b.year /\ a.month < b.month
    \/ a.year = b.year /\ a.month = b.month /\ a.day < b.day
    \/ a.year = b.year /\ a.month = b.month /\ a.day = b.day /\ a.hour < b.hour

(***************************************************************************)
(* Experiment (experiment.py)                                              *)
(***************************************************************************)
MaxSpan == 3

\* prediction_analysis.py: metrics = [RMSE(), MeanExcessExposure(), IsSmokeDay()]
NumMetrics == 3

StartDays == { <<2022, 12, 30>>, <<2023, 1, 1>>, <<2024, 2, 27>> }
Hours == {0, 12}

load_data_range_mut(delta_days) == 0 .. (delta_days - 1)

\* range(delta.days + 1)
load_data_range(delta_days) == 0 .. delta_days

\* Experiment.load_data: one DailyData per i in range(delta.days + 1)
load_data(start, end) ==
    LET delta_days == DeltaDays(start, end)
        r == load_data_range(delta_days)
    IN  [k \in 1 .. Cardinality(r) |-> AddDays(start, k - 1)]

\* day.date, the key of the results dict and the name of the results file
DateKey(d) == <<d.year, d.month, d.day>>

NoException == [type |-> "none", date |-> <<0, 0, 0>>]

ExpRest ==
    /\ start_date = DateTime(2023, 1, 1, 0) /\ end_date = DateTime(2023, 1, 1, 0)
    /\ daily_data = <<>>
    /\ exp_pc = "rest" /\ day_i = 0 /\ metric_i = 0 /\ results = <<>>
    /\ persisted = {} /\ warnings = {} /\ exp_exc = NoException

\* the state after Experiment.__init__
ExpInit ==
    /\ \E s \in StartDays, h \in Hours, span \in -1 .. MaxSpan, h2 \in Hours :
          /\ start_date = DateTime(s[1], s[2], s[3], h)
          /\ end_date = AddDays(DateTime(s[1], s[2], s[3], h2), span)
    /\ daily_data = load_data(start_date, end_date)
    /\ exp_pc = "evaluate_metrics"
    /\ day_i = 1 /\ metric_i = 1
    /\ results = <<>>
    /\ persisted = {} /\ warnings = {} /\ exp_exc = NoException

\* evaluate_metrics: metric(day) returns a value
EvaluateMetric ==
    /\ exp_pc = "evaluate_metrics"
    /\ day_i <= Len(daily_data)
    /\ IF metric_i < NumMetrics
       THEN /\ metric_i' = metric_i + 1
            /\ UNCHANGED <<day_i, results>>
       ELSE /\ metric_i' = 1
            /\ day_i' = day_i + 1
            /\ results' = Append(results, DateKey(daily_data[day_i]))
    /\ UNCHANGED <<start_date, end_date, daily_data, exp_pc, persisted,
                   warnings, exp_exc>>
    /\ UNCHANGED <<fetchVars, redVars, filterVars>>

\* evaluate_metrics: metric(day) raises; nothing in evaluate_metrics or run
\* catches it, so it leaves run()
EvaluateMetricRaises ==
    /\ exp_pc = "evaluate_metrics"
    /\ day_i <= Len(daily_data)
    /\ exp_pc' = "raised"
    /\ exp_exc' = [type |-> "MissingValue", date |-> DateKey(daily_data[day_i])]
    /\ UNCHANGED <<start_date, end_date, daily_data, day_i, metric_i, results,
                   persisted, warnings>>
    /\ UNCHANGED <<fetchVars, redVars, filterVars>>

\* run: evaluate_metrics returned, save_results starts
EvaluateDone ==
    /\ exp_pc = "evaluate_metrics"
    /\ day_i > Len(daily_data)
    /\ exp_pc' = "save_results"
    /\ day_i' = 1
    /\ UNCHANGED <<start_date, end_date, daily_data, metric_i, results,
                   persisted, warnings, exp_exc>>
    /\ UNCHANGED <<fetchVars, redVars, filterVars>>

\* save_results: json_tricks.dump of one day's results succeeds
SaveDay ==
    /\ exp_pc = "save_results"
    /\ day_i <= Len(results)
    /\ persisted' = persisted \cup {results[day_i]}
    /\ day_i' = day_i + 1
    /\ UNCHANGED <<start_date, end_date, daily_data, exp_pc, metric_i, results,
                   warnings, exp_exc>>
    /\ UNCHANGED <<fetchVars, redVars, filterVars>>

\* save_results: the conversion or the dump raises ValueError, which is caught
SaveDayValueError ==
    /\ exp_pc = "save_results"
    /\ day_i <= Len(results)
    /\ warnings' = warnings \cup {results[day_i]}
    /\ day_i' = day_i + 1
    /\ UNCHANGED <<start_date, end_date, daily_data, exp_pc, metric_i, results,
                   persisted, exp_exc>>
    /\ UNCHANGED <<fetchVars, redVars, filterVars>>

\* run: return results
RunReturns ==
    /\ exp_pc = "save_results"
    /\ day_i > Len(results)
    /\ exp_pc' = "returned"
    /\ UNCHANGED <<start_date, end_date, daily_data, day_i, metric_i, results,
                   persisted, warnings, exp_exc>>
    /\ UNCHANGED <<fetchVars, redVars, filterVars>>

ExpNext ==
    \/ EvaluateMetric
    \/ EvaluateMetricRaises
    \/ EvaluateDone
    \/ SaveDay
    \/ SaveDayValueError
    \/ RunReturns

(***************************************************************************)
(* Fetchers: create_url_and_get_xr (hrrr.py) and                           *)
(* create_naqfc_url_and_get_xr (naqfc.py)                                  *)
(***************************************************************************)
MaxLines == 3
MaxSize == 2

TargetVariable == "MASSDEN"
ManifestVariables == {"MASSDEN", "TMP"}

\* Python's None and a value that is not None
None == [isNone |-> TRUE, v |-> 0]
Some(n) == [isNone |-> FALSE, v |-> n]

RECURSIVE SumTo(_, _)
SumTo(f, n) == IF n = 0 THEN 0 ELSE SumTo(f, n - 1) + f[n]

\* The remote .idx file of an object: line k reads "k:<offset>:...:<var>:...",
\* the offset being the byte the k-th message starts at; size is the length
\* of the object.
Manifests ==
    UNION { { [lines |-> [k \in 1 .. n |->
                            [num |-> k, offset |-> SumTo(sz, k - 1), var |-> vs[k]]],
               size  |-> SumTo(sz, n)] :
              vs \in [1 .. n -> ManifestVariables], sz \in [1 .. n -> 1 .. MaxSize] } :
            n \in 1 .. MaxLines }

NoManifest == [lines |-> <<>>, size |-> 0]

\* the body of an error response (the XML document the server answers with),
\* split into lines: no line of it names a variable
ErrorBodyLines == << [num |-> 0, offset |-> 0, var |-> "<Error>"] >>

NoRange == [first |-> 0, last |-> None, sent |-> FALSE]
NoResp == [status |-> "none", content |-> "none"]

\* [l for l in idx if "MASSDEN" in l]
smk_lines(lines) == SelectSeq(lines, LAMBDA l : l.var = TargetVariable)

\* next_line = idx[line_num].split(":") if line_num < len(idx) else None
\* range_end = next_line[1] if next_line else None
\* (idx is 0-based: idx[line_num] is line number line_num + 1)
next_line(lines, line_num) ==
    IF line_num < Len(lines) THEN Some(lines[line_num + 1].offset) ELSE None

\* The bytes "Range: bytes=<first>-<last>" asks of an object of `size` bytes:
\* both ends are inclusive; a header that is not of that form (last printed
\* as "None") is no byte range.
RangeWellFormed(r) == r.sent /\ ~r.last.isNone
RequestedBytes(r, size) ==
    IF RangeWellFormed(r)
    THEN { b \in 0 .. size - 1 : r.first <= b /\ b <= r.last.v }
    ELSE 0 .. size - 1

cycle_invalid_mut(c) == c < 6 \/ c > 12

\* if cycle != 6 and cycle != 12: raise ValueError
cycle_invalid(c) == c # 6 /\ c # 12

\* get_AQM_version(day): the version returned or the exception raised
get_AQM_version(d) ==
    IF d.year < 2020
    THEN [exc |-> "ValueError_year", version |-> "none"]
    ELSE IF d.kind # "datetime"
    THEN \* day < datetime.datetime(...) with day a datetime.date
         [exc |-> "TypeError", version |-> "none"]
    ELSE IF Before(d, DateTime(2021, 7, 20, 0))
    THEN [exc |-> "none", version |-> "AQMv5"]
    ELSE IF Before(d, DateTime(2024, 5, 14, 0))
    THEN [exc |-> "none", version |-> "AQMv6"]
    ELSE [exc |-> "none", version |-> "AQMv7"]

EpochDays ==
    { <<2019, 12, 31>>, <<2020, 1, 1>>, <<2020, 6, 1>>, <<2021, 7, 19>>,
      <<2021, 7, 20>>, <<2021, 8, 1>>, <<2022, 1, 1>>, <<2024, 5, 13>>,
      <<2024, 5, 14>>, <<2024, 6, 1>>, <<2025, 1, 1>> }

NaqfcDays ==
    { DateTime(e[1], e[2], e[3], h) : e \in EpochDays, h \in Hours }
    \cup { Date(e[1], e[2], e[3]) : e \in EpochDays }

NaqfcCycles == {0, 6, 9, 12, 18}
HrrrCycles == {0, 12}

TmpFile == "tmp_1"

FetchRest ==
    /\ source = "none" /\ day = DateTime(2023, 1, 1, 0) /\ cycle = 0
    /\ manifest = NoManifest /\ fetch_pc = "rest" /\ idx = <<>>
    /\ range_start = 0 /\ range_end = None /\ AQM_version = "none"
    /\ files = {} /\ requests_log = <<>> /\ resp = NoResp
    /\ decoder_input = "none" /\ fetch_exc = "none"

\* the call of one of the two fetch functions
FetchInit ==
    /\ \/ /\ source = "hrrr"
          /\ day = DateTime(2023, 1, 1, 0)
          /\ cycle \in HrrrCycles
          /\ manifest \in Manifests
          /\ fetch_pc = "get_idx"
       \/ /\ source = "naqfc"
          /\ day \in NaqfcDays
          /\ cycle \in NaqfcCycles
          /\ manifest = NoManifest
          /\ fetch_pc = "validate"
    /\ idx = <<>> /\ range_start = 0 /\ range_end = None
    /\ AQM_version = "none" /\ files = {} /\ requests_log = <<>>
    /\ resp = NoResp /\ decoder_input = "none" /\ fetch_exc = "none"

Raise(e) == fetch_pc' = "raised" /\ fetch_exc' = e

\* ---- create_url_and_get_xr (hrrr.py)

\* r = requests.get(f"{url}.idx"); idx = r.text.splitlines()
HrrrGetIdx ==
    /\ source = "hrrr" /\ fetch_pc = "get_idx"
    /\ requests_log' = Append(requests_log, [url |-> "idx", range |-> NoRange])
    /\ idx' = manifest.lines
    /\ fetch_pc' = "parse"
    /\ UNCHANGED <<source, day, cycle, manifest, range_start, range_end,
                   AQM_version, files, resp, decoder_input, fetch_exc>>
    /\ UNCHANGED <<expVars, redVars, filterVars>>

\* the server answers the .idx request with an error status: the status is
\* not looked at and the error body is split into lines
HrrrGetIdxHttpError ==
    /\ source = "hrrr" /\ fetch_pc = "get_idx"
    /\ requests_log' = Append(requests_log, [url |-> "idx", range |-> NoRange])
    /\ idx' = ErrorBodyLines
    /\ fetch_pc' = "parse"
    /\ UNCHANGED <<source, day, cycle, manifest, range_start, range_end,
                   AQM_version, files, resp, decoder_input, fetch_exc>>
    /\ UNCHANGED <<expVars, redVars, filterVars>>

\* requests.get raises (no connection, timeout, ...)
HrrrGetIdxTransportError ==
    /\ source = "hrrr" /\ fetch_pc = "get_idx"
    /\ requests_log' = Append(requests_log, [url |-> "idx", range |-> NoRange])
    /\ Raise("RequestException")
    /\ UNCHANGED <<source, day, cycle, manifest, idx, range_start, range_end,
                   AQM_version, files, resp, decoder_input>>
    /\ UNCHANGED <<expVars, redVars, filterVars>>

\* smk_line = [...][0].split(":"); line_num, range_start, next_line, range_end
HrrrParseIdx ==
    /\ source = "hrrr" /\ fetch_pc = "parse"
    /\ smk_lines(idx) # <<>>
    /\ LET smk_line == smk_lines(idx)[1]
       IN  /\ range_start' = smk_line.offset
           /\ range_end' = next_line(idx, smk_line.num)
    /\ fetch_pc' = "tempfile"
    /\ UNCHANGED <<source, day, cycle, manifest, idx, AQM_version, files,
                   requests_log, resp, decoder_input, fetch_exc>>
    /\ UNCHANGED <<expVars, redVars, filterVars>>

\* [...][0] of an empty list: IndexError
HrrrParseIdxNoLine ==
    /\ source = "hrrr" /\ fetch_pc = "parse"
    /\ smk_lines(idx) = <<>>
    /\ Raise("IndexError")
    /\ UNCHANGED <<source, day, cycle, manifest, idx, range_start, range_end,
                   AQM_version, files, requests_log, resp, decoder_input>>
    /\ UNCHANGED <<expVars, redVars, filterVars>>

\* file = tempfile.NamedTemporaryFile(prefix="tmp_", delete=False)
HrrrTempFile ==
    /\ source = "hrrr" /\ fetch_pc = "tempfile"
    /\ files' = files \cup {TmpFile}
    /\ fetch_pc' = "get_data"
    /\ UNCHANGED <<source, day, cycle, manifest, idx, range_start, range_end,
                   AQM_version, requests_log, resp, decoder_input, fetch_exc>>
    /\ UNCHANGED <<expVars, redVars, filterVars>>

\* headers = {"Range": f"bytes={range_start}-{range_end}"}
RangeHeader == [first |-> range_start, last |-> range_end, sent |-> TRUE]

\* resp = requests.get(url, headers=headers, stream=True)
HrrrGetData ==
    /\ source = "hrrr" /\ fetch_pc = "get_data"
    /\ requests_log' = Append(requests_log, [url |-> "grib", range |-> RangeHeader])
    /\ resp' = [status |-> "ok", content |-> "grid"]
    /\ fetch_pc' = "write"
    /\ UNCHANGED <<source, day, cycle, manifest, idx, range_start, range_end,
                   AQM_version, files, decoder_input, fetch_exc>>
    /\ UNCHANGED <<expVars, redVars, filterVars>>

HrrrGetDataHttpError ==
    /\ source = "hrrr" /\ fetch_pc = "get_data"
    /\ requests_log' = Append(requests_log, [url |-> "grib", range |-> RangeHeader])
    /\ resp' = [status |-> "error", content |-> "error_body"]
    /\ fetch_pc' = "write"
    /\ UNCHANGED <<source, day, cycle, manifest, idx, range_start, range_end,
                   AQM_version, files, decoder_input, fetch_exc>>
    /\ UNCHANGED <<expVars, redVars, filterVars>>

HrrrGetDataTransportError ==
    /\ source = "hrrr" /\ fetch_pc = "get_data"
    /\ requests_log' = Append(requests_log, [url |-> "grib", range |-> RangeHeader])
    /\ Raise("RequestException")
    /\ UNCHANGED <<source, day, cycle, manifest, idx, range_start, range_end,
                   AQM_version, files, resp, decoder_input>>
    /\ UNCHANGED <<expVars, redVars, filterVars>>

\* with file as f: f.write(resp.content)   (the file is closed, not removed)
HrrrWrite ==
    /\ source = "hrrr" /\ fetch_pc = "write"
    /\ fetch_pc' = "open_dataset"
    /\ UNCHANGED <<source, day, cycle, manifest, idx, range_start, range_end,
                   AQM_version, files, requests_log, resp, decoder_input,
                   fetch_exc>>
    /\ UNCHANGED <<expVars, redVars, filterVars>>

\* ds = xr.open_dataset(file.name, engine="cfgrib"); assert ...; return ds
HrrrOpenDataset ==
    /\ source = "hrrr" /\ fetch_pc = "open_dataset"
    /\ resp.content = "grid"
    /\ decoder_input' = resp.content
    /\ fetch_pc' = "returned"
    /\ UNCHANGED <<source, day, cycle, manifest, idx, range_start, range_end,
                   AQM_version, files, requests_log, resp, fetch_exc>>
    /\ UNCHANGED <<expVars, redVars, filterVars>>

\* the sanity check on the lengths fails
HrrrAssertFails ==
    /\ source = "hrrr" /\ fetch_pc = "open_dataset"
    /\ resp.content = "grid"
    /\ decoder_input' = resp.content
    /\ Raise("AssertionError")
    /\ UNCHANGED <<source, day, cycle, manifest, idx, range_start, range_end,
                   AQM_version, files, requests_log, resp>>
    /\ UNCHANGED <<expVars, redVars, filterVars>>

\* xr.open_dataset raises on what it is given
HrrrOpenDatasetRaises ==
    /\ source = "hrrr" /\ fetch_pc = "open_dataset"
    /\ decoder_input' = resp.content
    /\ Raise("DecodeError")
    /\ UNCHANGED <<source, day, cycle, manifest, idx, range_start, range_end,
                   AQM_version, files, requests_log, resp>>
    /\ UNCHANGED <<expVars, redVars, filterVars>>

\* ---- create_naqfc_url_and_get_xr (naqfc.py)

\* the cycle is 6 or 12: the check passes
NaqfcValidate ==
    /\ source = "naqfc" /\ fetch_pc = "validate"
    /\ ~cycle_invalid(cycle)
    /\ fetch_pc' = "get_AQM_version"
    /\ UNCHANGED <<source, day, cycle, manifest, idx, range_start, range_end,
                   AQM_version, files, requests_log, resp, decoder_input,
                   fetch_exc>>
    /\ UNCHANGED <<expVars, redVars, filterVars>>

\* raise ValueError("... cycle must be either 6 or 12 ...")
NaqfcInvalidCycle ==
    /\ source = "naqfc" /\ fetch_pc = "validate"
    /\ cycle_invalid(cycle)
    /\ Raise("ValueError_cycle")
    /\ UNCHANGED <<source, day, cycle, manifest, idx, range_start, range_end,
                   AQM_version, files, requests_log, resp, decoder_input>>
    /\ UNCHANGED <<expVars, redVars, filterVars>>

\* AQM_version = get_AQM_version(day)
NaqfcGetVersion ==
    /\ source = "naqfc" /\ fetch_pc = "get_AQM_version"
    /\ get_AQM_version(day).exc = "none"
    /\ AQM_version' = get_AQM_version(day).version
    /\ fetch_pc' = "tempfile"
    /\ UNCHANGED <<source, day, cycle, manifest, idx, range_start, range_end,
                   files, requests_log, resp, decoder_input, fetch_exc>>
    /\ UNCHANGED <<expVars, redVars, filterVars>>

NaqfcGetVersionRaises ==
    /\ source = "naqfc" /\ fetch_pc = "get_AQM_version"
    /\ get_AQM_version(day).exc # "none"
    /\ Raise(get_AQM_version(day).exc)
    /\ UNCHANGED <<source, day, cycle, manifest, idx, range_start, range_end,
                   AQM_version, files, requests_log, resp, decoder_input>>
    /\ UNCHANGED <<expVars, redVars, filterVars>>

\* file = tempfile.NamedTemporaryFile(prefix="tmp_", delete=False)
NaqfcTempFile ==
    /\ source = "naqfc" /\ fetch_pc = "tempfile"
    /\ files' = files \cup {TmpFile}
    /\ fetch_pc' = "get_data"
    /\ UNCHANGED <<source, day, cycle, manifest, idx, range_start, range_end,
                   AQM_version, requests_log, resp, decoder_input, fetch_exc>>
    /\ UNCHANGED <<expVars, redVars, filterVars>>

\* resp = requests.get(url)
NaqfcGetData ==
    /\ source = "naqfc" /\ fetch_pc = "get_data"
    /\ requests_log' = Append(requests_log, [url |-> "aqm", range |-> NoRange])
    /\ resp' = [status |-> "ok", content |-> "grid"]
    /\ fetch_pc' = "write"
    /\ UNCHANGED <<source, day, cycle, manifest, idx, range_start, range_end,
                   AQM_version, files, decoder_input, fetch_exc>>
    /\ UNCHANGED <<expVars, redVars, filterVars>>

NaqfcGetDataHttpError ==
    /\ source = "naqfc" /\ fetch_pc = "get_data"
    /\ requests_log' = Append(requests_log, [url |-> "aqm", range |-> NoRange])
    /\ resp' = [status |-> "error", content |-> "error_body"]
    /\ fetch_pc' = "write"
    /\ UNCHANGED <<source, day, cycle, manifest, idx, range_start, range_end,
                   AQM_version, files, decoder_input, fetch_exc>>
    /\ UNCHANGED <<expVars, redVars, filterVars>>

NaqfcGetDataTransportError ==
    /\ source = "naqfc" /\ fetch_pc = "get_data"
    /\ requests_log' = Append(requests_log, [url |-> "aqm", range |-> NoRange])
    /\ Raise("RequestException")
    /\ UNCHANGED <<source, day, cycle, manifest, idx, range_start, range_end,
                   AQM_version, files, resp, decoder_input>>
    /\ UNCHANGED <<expVars, redVars, filterVars>>

\* with file as f: f.write(resp.content)
NaqfcWrite ==
    /\ source = "naqfc" /\ fetch_pc = "write"
    /\ fetch_pc' = "open_dataset"
    /\ UNCHANGED <<source, day, cycle, manifest, idx, range_start, range_end,
                   AQM_version, files, requests_log, resp, decoder_input,
                   fetch_exc>>
    /\ UNCHANGED <<expVars, redVars, filterVars>>

\* ds = xr.open_dataset(file.name, engine='cfgrib'); return ds
NaqfcOpenDataset ==
    /\ source = "naqfc" /\ fetch_pc = "open_dataset"
    /\ resp.content = "grid"
    /\ decoder_input' = resp.content
    /\ fetch_pc' = "returned"
    /\ UNCHANGED <<source, day, cycle, manifest, idx, range_start, range_end,
                   AQM_version, files, requests_log, resp, fetch_exc>>
    /\ UNCHANGED <<expVars, redVars, filterVars>>

NaqfcOpenDatasetRaises ==
    /\ source = "naqfc" /\ fetch_pc = "open_dataset"
    /\ decoder_input' = resp.content
    /\ Raise("DecodeError")
    /\ UNCHANGED <<source, day, cycle, manifest, idx, range_start, range_end,
                   AQM_version, files, requests_log, resp>>
    /\ UNCHANGED <<expVars, redVars, filterVars>>

FetchNext ==
    \/ HrrrGetIdx
    \/ HrrrGetIdxHttpError
    \/ HrrrGetIdxTransportError
    \/ HrrrParseIdx
    \/ HrrrParseIdxNoLine
    \/ HrrrTempFile
    \/ HrrrGetData
    \/ HrrrGetDataHttpError
    \/ HrrrGetDataTransportError
    \/ HrrrWrite
    \/ HrrrOpenDataset
    \/ HrrrAssertFails
    \/ HrrrOpenDatasetRaises
    \/ NaqfcValidate
    \/ NaqfcInvalidCycle
    \/ NaqfcGetVersion
    \/ NaqfcGetVersionRaises
    \/ NaqfcTempFile
    \/ NaqfcGetData
    \/ NaqfcGetDataHttpError
    \/ NaqfcGetDataTransportError
    \/ NaqfcWrite
    \/ NaqfcOpenDataset
    \/ NaqfcOpenDatasetRaises

(***************************************************************************)
(* Reducers: hrrr_data_download (hrrr.py), naqfc_data_download (naqfc.py)  *)
(***************************************************************************)
MaxCells == 2
MaxMissing == 1

\* hrrr.py: for leadtime in range(1, 25)
HrrrLastLeadtime == 24
\* naqfc.py: for i in range(1, 25)
NaqfcLastStep == 24
\* naqfc.py: 'ValidTime': np.repeat(12+i, len(latitudes))
NaqfcValidTimeBase == 12

Cells == 1 .. MaxCells
Steps == 1 .. HrrrLastLeadtime

\* A value of a float array: NaN, or a number (v, in thousandths of a
\* microgram per cubic metre for a decoded value and in hundredths after
\* rounding)
NaN == [nan |-> TRUE, v |-> 0]
Num(x) == [nan |-> FALSE, v |-> x]

\* The decoded grid: coordinates in hundredths of a degree, the value plane of
\* a step flattened in cell order. A cell the file has no value for decodes
\* to NaN.
Latitude(c) == 4000 + 5 * c
Longitude(c) == 0 - 10500
DecodedValue(missing, step, c) ==
    IF <<step, c>> \in missing THEN NaN ELSE Num(1000 * step + 125 * c)

\* np.round(x, 2): to the nearest hundredth, a tie to the even one; NaN stays
np_round(x) ==
    IF x.nan THEN NaN
    ELSE LET q == x.v \div 10
             r == x.v % 10
         IN  Num(IF r < 5 THEN q
                 ELSE IF r > 5 THEN q + 1
                 ELSE IF q % 2 = 0 THEN q ELSE q + 1)

\* str(n), n >= 0, as its sequence of decimal digits
RECURSIVE Digits(_)
Digits(n) == IF n < 10 THEN <<n>> ELSE Append(Digits(n \div 10), n % 10)

\* f"{cycle + leadtime}": a str
StrValue(n) == [type |-> "str", val |-> Digits(n)]
\* an integer
IntValue(n) == [type |-> "int", val |-> <<n>>]

\* a <= b on two str (by code points, a proper prefix first)
RECURSIVE StrLeq(_, _)
StrLeq(a, b) ==
    IF a = <<>> THEN TRUE
    ELSE IF b = <<>> THEN FALSE
    ELSE IF a[1] # b[1] THEN a[1] < b[1]
    ELSE StrLeq(Tail(a), Tail(b))

\* a <= b on two values of a column
ValueLeq(a, b) ==
    IF a.type = "str" THEN StrLeq(a.val, b.val) ELSE a.val[1] <= b.val[1]

\* _download_hour(leadtime): the frame of one lead step
hrrr_frame(missing, cyc, lt) ==
    [c \in Cells |->
        [Latitude  |-> Latitude(c),
         Longitude |-> Longitude(c),
         ValidTime |-> StrValue(cyc + lt),
         PM25      |-> np_round(DecodedValue(missing, lt, c))]]

\* df_temp of step i
naqfc_frame(missing, i) ==
    [c \in Cells |->
        [Latitude  |-> Latitude(c),
         Longitude |-> Longitude(c),
         ValidTime |-> IntValue(NaqfcValidTimeBase + i),
         PM25      |-> np_round(DecodedValue(missing, i, c))]]

\* pd.concat(list of frames)
RECURSIVE concat(_)
concat(fs) ==
    IF fs = <<>> THEN <<>> ELSE concat(SubSeq(fs, 1, Len(fs) - 1)) \o fs[Len(fs)].rows

\* df.dropna(subset=['PM25'])
dropna(t) == SelectSeq(t, LAMBDA row : ~row.PM25.nan)

\* the sets of at most n positions of the grid
RECURSIVE PatternsUpTo(_)
PatternsUpTo(n) ==
    IF n = 0 THEN {{}}
    ELSE PatternsUpTo(n - 1)
         \cup { m \cup {pos} : m \in PatternsUpTo(n - 1), pos \in Steps \X Cells }

MissingPatterns == PatternsUpTo(MaxMissing)

HrrrReduceCycles == {0, 8, 9, 23}
NaqfcReduceCycles == {6, 9, 12}

RedRest ==
    /\ red_source = "none" /\ red_cycle = 0 /\ missing_cells = {}
    /\ red_pc = "rest" /\ leadtime = 0 /\ frames = <<>> /\ df = <<>>

\* the call of one of the two download functions, on a remote object whose
\* decoded grid lacks the values of missing_cells
RedInit ==
    /\ \/ red_source = "hrrr" /\ red_cycle \in HrrrReduceCycles
       \/ red_source = "naqfc" /\ red_cycle \in NaqfcReduceCycles
    /\ missing_cells \in MissingPatterns
    /\ red_pc = IF red_source = "hrrr" THEN "loop" ELSE "fetch"
    /\ leadtime = 1 /\ frames = <<>> /\ df = <<>>

\* hrrr_data_download: _download_hour(leadtime) of the list comprehension
HrrrDownloadHour ==
    /\ red_source = "hrrr" /\ red_pc = "loop"
    /\ leadtime <= HrrrLastLeadtime
    /\ frames' = Append(frames, [leadtime |-> leadtime,
                                 rows |-> hrrr_frame(missing_cells, red_cycle, leadtime)])
    /\ leadtime' = leadtime + 1
    /\ UNCHANGED <<red_source, red_cycle, missing_cells, red_pc, df>>
    /\ UNCHANGED <<expVars, fetchVars, filterVars>>

\* create_url_and_get_xr raises: the exception leaves hrrr_data_download
HrrrDownloadHourRaises ==
    /\ red_source = "hrrr" /\ red_pc = "loop"
    /\ leadtime <= HrrrLastLeadtime
    /\ red_pc' = "raised"
    /\ UNCHANGED <<red_source, red_cycle, missing_cells, leadtime, frames, df>>
    /\ UNCHANGED <<expVars, fetchVars, filterVars>>

\* return pd.concat(hourly_dfs)
HrrrConcat ==
    /\ red_source = "hrrr" /\ red_pc = "loop"
    /\ leadtime > HrrrLastLeadtime
    /\ df' = concat(frames)
    /\ red_pc' = "returned"
    /\ UNCHANGED <<red_source, red_cycle, missing_cells, leadtime, frames>>
    /\ UNCHANGED <<expVars, fetchVars, filterVars>>

\* naqfc_data_download: ds = create_naqfc_url_and_get_xr(date, cycle)
NaqfcFetch ==
    /\ red_source = "naqfc" /\ red_pc = "fetch"
    /\ ~cycle_invalid(red_cycle)
    /\ red_pc' = "loop"
    /\ UNCHANGED <<red_source, red_cycle, missing_cells, leadtime, frames, df>>
    /\ UNCHANGED <<expVars, fetchVars, filterVars>>

NaqfcFetchRaises ==
    /\ red_source = "naqfc" /\ red_pc = "fetch"
    /\ red_pc' = "raised"
    /\ UNCHANGED <<red_source, red_cycle, missing_cells, leadtime, frames, df>>
    /\ UNCHANGED <<expVars, fetchVars, filterVars>>

\* one turn of the loop: data.append(df_temp)
NaqfcStep ==
    /\ red_source = "naqfc" /\ red_pc = "loop"
    /\ leadtime <= NaqfcLastStep
    /\ frames' = Append(frames, [leadtime |-> leadtime,
                                 rows |-> naqfc_frame(missing_cells, leadtime)])
    /\ leadtime' = leadtime + 1
    /\ UNCHANGED <<red_source, red_cycle, missing_cells, red_pc, df>>
    /\ UNCHANGED <<expVars, fetchVars, filterVars>>

\* df = pd.concat(data, ignore_index=True); df = df.dropna(...); return df
NaqfcConcatDropna ==
    /\ red_source = "naqfc" /\ red_pc = "loop"
    /\ leadtime > NaqfcLastStep
    /\ df' = dropna(concat(frames))
    /\ red_pc' = "returned"
    /\ UNCHANGED <<red_source, red_cycle, missing_cells, leadtime, frames>>
    /\ UNCHANGED <<expVars, fetchVars, filterVars>>

RedNext ==
    \/ HrrrDownloadHour
    \/ HrrrDownloadHourRaises
    \/ HrrrConcat
    \/ NaqfcFetch
    \/ NaqfcFetchRaises
    \/ NaqfcStep
    \/ NaqfcConcatDropna

(***************************************************************************)
(* Spatial filter: find_nearby_predictions (hrrr.py)                       *)
(***************************************************************************)
MaxRows == 3

\* 6371 * haversine_distances(...): the radius of the sphere, in km
EarthRadius == 6371
\* max_distance: float = 10.0 (km), in units of 1e-7 km
DefaultMaxDistance == 100000000

GridLats == {4000, 4005, 4009}
GridLons == {0 - 10500, 0 - 10490}

Abs(x) == IF x < 0 THEN 0 - x ELSE x
Min(a, b) == IF a <= b THEN a ELSE b
Max(a, b) == IF a <= b THEN b ELSE a

\* haversine_distances on two points given in hundredths of a degree: the
\* central angle  2 asin(sqrt(sin^2(dlat/2) + cos(lat1) cos(lat2) sin^2(dlon/2)))
\* in units of 1e-7 rad, tabulated on the grid points
haversine_distances(lat1, lon1, lat2, lon2) ==
    LET lo == Min(lat1, lat2)
        hi == Max(lat1, lat2)
        dlon == Abs(lon1 - lon2)
    IN  CASE lo = hi   /\ dlon = 0                -> 0
          [] lo = 4000 /\ hi = 4000 /\ dlon = 10  -> 13370
          [] lo = 4005 /\ hi = 4005 /\ dlon = 10  -> 13360
          [] lo = 4009 /\ hi = 4009 /\ dlon = 10  -> 13352
          [] lo = 4000 /\ hi = 4005 /\ dlon = 0   -> 8727
          [] lo = 4000 /\ hi = 4005 /\ dlon = 10  -> 15962
          [] lo = 4000 /\ hi = 4009 /\ dlon = 0   -> 15708
          [] lo = 4000 /\ hi = 4009 /\ dlon = 10  -> 20622
          [] lo = 4005 /\ hi = 4009 /\ dlon = 0   -> 6981
          [] lo = 4005 /\ hi = 4009 /\ dlon = 10  -> 15071

\* dists = 6371 * haversine_distances(coords, pred_latlons)[0], in 1e-7 km
dists(table, coords) ==
    [k \in 1 .. Len(table) |->
        EarthRadius * haversine_distances(coords[1], coords[2],
                                          table[k].Latitude, table[k].Longitude)]

within_mut(d, radius) == d < radius

\* dists <= max_distance
within(d, radius) == d <= radius

\* (mask).nonzero()[0]: the positions where the mask holds, ascending
RECURSIVE nonzero(_, _, _)
nonzero(ds, radius, n) ==
    IF n = 0 THEN <<>>
    ELSE IF within(ds[n], radius)
         THEN Append(nonzero(ds, radius, n - 1), n)
         ELSE nonzero(ds, radius, n - 1)

\* predictions.iloc[inds]
iloc(table, inds) == [k \in 1 .. Len(inds) |-> table[inds[k]]]

find_nearby_predictions(table, coords, radius) ==
    LET inds == nonzero(dists(table, coords), radius, Len(table))
    IN  iloc(table, inds)

\* tables of up to MaxRows rows on the grid points; the PM25 of a row tells
\* the rows of a table apart
RowAt(pt, k) ==
    [Latitude |-> pt[1], Longitude |-> pt[2],
     ValidTime |-> IntValue(NaqfcValidTimeBase + 1), PM25 |-> Num(100 * k)]

Tables ==
    UNION { { [k \in 1 .. n |-> RowAt(pts[k], k)] :
              pts \in [1 .. n -> GridLats \X GridLons] } : n \in 0 .. MaxRows }

Radii == {0, DefaultMaxDistance, EarthRadius * 8727}

FilterRest ==
    /\ predictions = <<>> /\ coordinates = <<4000, 0 - 10500>>
    /\ max_distance = 0 /\ filter_pc = "rest" /\ nearby_preds = <<>>

FilterInit ==
    /\ predictions \in Tables
    /\ coordinates \in GridLats \X GridLons
    /\ max_distance \in Radii
    /\ filter_pc = "called"
    /\ nearby_preds = <<>>

FindNearbyPredictions ==
    /\ filter_pc = "called"
    /\ nearby_preds' = find_nearby_predictions(predictions, coordinates, max_distance)
    /\ filter_pc' = "returned"
    /\ UNCHANGED <<predictions, coordinates, max_distance>>
    /\ UNCHANGED <<expVars, fetchVars, redVars>>

FilterNext ==
    \/ FindNearbyPredictions

(***************************************************************************)
(* Specifications                                                          *)
(***************************************************************************)
InitExperiment == ExpInit /\ FetchRest /\ RedRest /\ FilterRest
SpecExperiment == InitExperiment /\ [][ExpNext]_vars

InitFetch == ExpRest /\ FetchInit /\ RedRest /\ FilterRest
SpecFetch == InitFetch /\ [][FetchNext]_vars

InitReduce == ExpRest /\ FetchRest /\ RedInit /\ FilterRest
SpecReduce == InitReduce /\ [][RedNext]_vars

InitFilter == ExpRest /\ FetchRest /\ RedRest /\ FilterInit
SpecFilter == InitFilter /\ [][FilterNext]_vars

Init == InitExperiment \/ InitFetch \/ InitReduce \/ InitFilter
Next == ExpNext \/ FetchNext \/ RedNext \/ FilterNext
Spec == Init /\ [][Next]_vars

(***************************************************************************)
(* Properties                                                              *)
(***************************************************************************)

\* C1: when the evaluation of a metric raises a missing-value condition for
\* one day, the run is not aborted: once run() is over, every day of the
\* range that was evaluated without raising, and whose dump did not fail, has
\* its results persisted.
C1_OtherDaysPersisted ==
    exp_pc \in {"returned", "raised"} =>
        \A k \in 1 .. Len(results) :
            results[k] \notin warnings => results[k] \in persisted

\* C6: for start_date <= end_date, load_data builds exactly delta_days + 1
\* DailyData, the i-th dated start_date + i days, ascending with no gap and no
\* duplicate, the last one within a day of end_date; 2023-01-01 .. 2023-01-03
\* yields 01-01, 01-02, 01-03.
C6_DayEnumeration ==
    (exp_pc # "rest" /\ ~Before(end_date, start_date)) =>
        LET n == Len(daily_data) IN
        /\ n = DeltaDays(start_date, end_date) + 1
        /\ n >= 1
        /\ daily_data[1] = start_date
        /\ \A i \in 1 .. n :
              /\ ToOrdinal(daily_data[i]) = ToOrdinal(start_date) + (i - 1)
              /\ daily_data[i].month \in 1 .. 12
              /\ daily_data[i].day \in
                     1 .. DaysInMonth(daily_data[i].year, daily_data[i].month)
        /\ \A i \in 1 .. n - 1 : Before(daily_data[i], daily_data[i + 1])
        /\ ~Before(end_date, daily_data[n])
        /\ Before(end_date, AddDays(daily_data[n], 1))
        /\ (start_date = DateTime(2023, 1, 1, 0) /\ end_date = DateTime(2023, 1, 3, 0))
              => [i \in 1 .. n |-> DateKey(daily_data[i])]
                     = << <<2023, 1, 1>>, <<2023, 1, 2>>, <<2023, 1, 3>> >>

\* a run over 2023-01-01 .. 2023-01-03 that returned, three DailyData built
C6_Witness ==
    /\ exp_pc = "returned"
    /\ start_date = DateTime(2023, 1, 1, 0)
    /\ end_date = DateTime(2023, 1, 3, 0)
    /\ Len(daily_data) = 3
    /\ Len(results) = 3

\* C2: in no terminal state of a fetch (returned or raised) does a transient
\* file it created still exist.
C2_TransientFileReleased ==
    fetch_pc \in {"returned", "raised"} => files = {}

\* the outcome the epoch table gives a calendar day
ExpectedEpoch(d) ==
    LET o == ToOrdinal(d) IN
    IF o < ToOrdinal(Date(2020, 1, 1)) THEN "UnsupportedPeriod"
    ELSE IF o < ToOrdinal(Date(2021, 7, 20)) THEN "AQMv5"
    ELSE IF o < ToOrdinal(Date(2024, 5, 14)) THEN "AQMv6"
    ELSE "AQMv7"

\* C4: once get_AQM_version has run on a date, the outcome is the one of the
\* epoch table: UnsupportedPeriod before the earliest epoch, epoch A up to but
\* excluding 2021-07-20, epoch B up to but excluding 2024-05-14, epoch C from
\* then on; every date has one of these four outcomes.
C4_EpochSelection ==
    (source = "naqfc" /\ ~cycle_invalid(cycle)
        /\ fetch_pc \notin {"validate", "get_AQM_version"}) =>
        IF ExpectedEpoch(day) = "UnsupportedPeriod"
        THEN fetch_exc = "ValueError_year" /\ AQM_version = "none"
        ELSE AQM_version = ExpectedEpoch(day)

\* C5: on the fixed-cycle source a cycle outside {6, 12} fails with the
\* invalid-cycle error, before any request is issued or any file is created;
\* cycles 6 and 12 pass the validation.
C5_CycleValidation ==
    source = "naqfc" =>
        /\ cycle \notin {6, 12} =>
              /\ requests_log = <<>>
              /\ files = {}
              /\ decoder_input = "none"
              /\ fetch_pc \in {"validate", "raised"}
              /\ fetch_pc = "raised" => fetch_exc = "ValueError_cycle"
        /\ cycle \in {6, 12} => fetch_exc # "ValueError_cycle"

\* cycle 9 was refused
C5_Witness ==
    /\ source = "naqfc" /\ cycle = 9
    /\ fetch_pc = "raised" /\ fetch_exc = "ValueError_cycle"

\* C7: the ranged download asks for exactly the bytes from the offset of the
\* target variable's line up to, and excluding, the offset of the next line,
\* or up to the end of the object when the target line is the last one, with
\* a well-formed range.
C7_ExactByteRange ==
    \A k \in 1 .. Len(requests_log) :
        requests_log[k].url = "grib" =>
            LET r      == requests_log[k].range
                target == smk_lines(manifest.lines)[1]
                until  == IF target.num = Len(manifest.lines)
                          THEN manifest.size
                          ELSE manifest.lines[target.num + 1].offset
            IN  /\ RangeWellFormed(r)
                /\ RequestedBytes(r, manifest.size)
                       = { b \in 0 .. manifest.size - 1 :
                             target.offset <= b /\ b < until }

\* a request of the fetch failed: the transport raised, the server answered
\* the data request with an error, or the manifest names no target variable
FetchFailed ==
    \/ fetch_exc = "RequestException"
    \/ resp.status = "error"
    \/ source = "hrrr" /\ fetch_pc \notin {"get_idx", "rest"} /\ smk_lines(idx) = <<>>

\* C10: a failed fetch surfaces as a download failure from the fetcher: it is
\* never handed to the decoder, the fetch ends raising the transport's or the
\* missing-entry error, and no request is issued twice.
C10_FailureSurfaces ==
    /\ FetchFailed => decoder_input = "none"
    /\ (FetchFailed /\ fetch_pc \in {"returned", "raised"}) =>
          fetch_pc = "raised" /\ fetch_exc \in {"RequestException", "IndexError"}
    /\ \A i, j \in 1 .. Len(requests_log) :
          i # j => requests_log[i].url # requests_log[j].url

\* C8: in the table a download function returns, the frames are in ascending
\* leadtime order and ValidTime never decreases from a row to the next.
C8_ValidTimeNonDecreasing ==
    red_pc = "returned" =>
        /\ \A k \in 1 .. Len(frames) - 1 :
              frames[k].leadtime < frames[k + 1].leadtime
        /\ \A k \in 1 .. Len(df) - 1 :
              ValueLeq(df[k].ValidTime, df[k + 1].ValidTime)

\* C9: the table a download function returns has no row whose PM25 is
\* missing, and has a row for every cell of every step whose value is present.
C9_NoMissingPM25 ==
    red_pc = "returned" =>
        /\ \A k \in 1 .. Len(df) : ~df[k].PM25.nan
        /\ Len(df) = Cardinality((Steps \X Cells) \ missing_cells)

\* the great-circle distance of a row to the target, in 1e-7 km
Distance(row, coords) ==
    EarthRadius * haversine_distances(coords[1], coords[2],
                                      row.Latitude, row.Longitude)

====
